---------------------------- MODULE Spec2Model ----------------------------
(***************************************************************************)
(* TM::StringView (include/tm/string_view.hpp): a non-owning view          *)
(* (m_string, m_offset, m_length) into a TM::String.                       *)
(*                                                                         *)
(* The program modelled holds the owned Strings `strs` and the StringView  *)
(* variables `views`; every step is one StringView operation, whose        *)
(* outcome is kept in `res`.  A failed assert() ends the process: no step  *)
(* follows an outcome of kind "abort" (or "crash", a fault reached through *)
(* undefined behaviour).  assert() is compiled in (no NDEBUG).             *)
(*                                                                         *)
(* size_t is the 64-bit unsigned type.  A size_t within reach of 0 or of    *)
(* 2^64 is written as an integer n: n >= 0 is the size_t n, and n < 0 is   *)
(* the size_t 2^64 + n (SIZE_MAX is -1).  Sums and differences of size_t   *)
(* values, taken modulo 2^64 by the machine, are then the integer sums and *)
(* differences; the unsigned order is SizeLess.  char is the signed 8-bit  *)
(* char of the usual build; (unsigned char) is modelled by ToUnsignedChar. *)
(***************************************************************************)
EXTENDS Integers, Sequences, FiniteSets

VARIABLES strs, views, res

vars == <<strs, views, res>>

(***************************************************************************)
(* Bounds and input sets                                                   *)
(***************************************************************************)
MaxLen == 2

\* The String objects and the StringView variables of the program.
StringIds == {"s", "t"}
ViewIds == {"a", "b"}

\* char values stored in Strings: 'a' and the byte 0xFF (-1 as a signed char).
Chars == {-1, 97}

\* const String * values; nullptr is the default of m_string.
NULL == "nullptr"

\* The greatest size_t, 2^64 - 1.
SIZE_MAX == -1

\* x < y on size_t values: the values from 0 up precede those below 2^64.
SizeLess(x, y) == IF (x >= 0) = (y >= 0) THEN x < y ELSE x >= 0

\* x <= y on size_t values.
SizeLessEq(x, y) == ~SizeLess(y, x)

\* size_t arguments up to one past the longest String: 0 .. MaxLen + 1.
SmallSizes == 0 .. (MaxLen + 1)

\* size_t arguments handed to constructors and to at(): SmallSizes and
\* SIZE_MAX - MaxLen .. SIZE_MAX.
Sizes == SmallSizes \cup ((SIZE_MAX - MaxLen) .. SIZE_MAX)

\* The indexes handed to the unchecked operator[]: the first and the last.
EdgeIndexes == {0, SIZE_MAX}

SeqsUpTo(n) == UNION {[1 .. k -> Chars] : k \in 0 .. n}

(***************************************************************************)
(* Outcomes of a call                                                      *)
(***************************************************************************)
Ret(x) == [kind |-> "return", value |-> x]
Abort == [kind |-> "abort"]
Crash == [kind |-> "crash"]

Min(x, y) == IF x < y THEN x ELSE y

(***************************************************************************)
(* The part of TM::String that StringView uses (string.hpp)                *)
(***************************************************************************)
\* String::length()
StrLength(s) == Len(strs[s])

\* char pointers: a block of chars and a position in it; the null pointer.
NullPtr == [null |-> TRUE]
Ptr(mem, off) == [null |-> FALSE, mem |-> mem, off |-> off]
PtrAdd(p, n) == Ptr(p.mem, p.off + n)

\* String::c_str(): the String's bytes, followed by the terminating zero.
c_str(s) == Ptr(strs[s] \o <<0>>, 0)

\* The bytes p[0 .. n-1].
PtrBytes(p, n) == [i \in 1 .. n |-> p.mem[p.off + i]]

\* String::at(index): assert(index < m_length), then the byte.
StrAt(s, index) ==
    IF SizeLess(index, StrLength(s)) THEN Ret(strs[s][index + 1]) ELSE Abort

\* A variant that leaves the char signed.
KeepSignedChar(c) == c

\* (unsigned char) c
ToUnsignedChar(c) == (c + 256) % 256

\* A read of a char outside the String, which the language leaves
\* undefined: a fault, or whatever byte lies in memory there.
UndefinedChar == {Crash} \cup {Ret(c) : c \in -128 .. 127}

\* A bool computed through undefined behaviour: a fault, or either value.
UndefinedBool == {Crash, Ret(TRUE), Ret(FALSE)}

\* String::operator[](index): unchecked; inside the String it is the byte,
\* outside it the read is undefined.
StrIndex(s, index) ==
    IF SizeLess(index, StrLength(s)) THEN {Ret(strs[s][index + 1])}
    ELSE UndefinedChar

\* strlen(p): the number of chars before the first zero.
RECURSIVE strlen_from(_, _)
strlen_from(p, n) ==
    IF p.mem[p.off + n + 1] = 0 THEN n ELSE strlen_from(p, n + 1)

strlen(p) == strlen_from(p, 0)

\* memcmp(p, q, n): the sign of the first difference of the n bytes at p and
\* q, compared as unsigned chars; 0 when there is none.
RECURSIVE memcmp_from(_, _, _, _)
memcmp_from(p, q, n, i) ==
    IF i >= n THEN 0
    ELSE LET c1 == ToUnsignedChar(p.mem[p.off + i + 1])
             c2 == ToUnsignedChar(q.mem[q.off + i + 1])
         IN  IF c1 < c2 THEN -1
             ELSE IF c1 > c2 THEN 1
             ELSE memcmp_from(p, q, n, i + 1)

memcmp(p, q, n) == memcmp_from(p, q, n, 0)

\* String(): the empty String.
StringEmpty == <<>>

\* String { ptr, length }: a new String holding the length bytes at ptr.
StringFrom(p, n) == PtrBytes(p, n)

\* String::append(ptr, length) applied to the content `content`.
StrAppend(content, p, n) == content \o PtrBytes(p, n)

(***************************************************************************)
(* StringView: constructors                                                *)
(***************************************************************************)
\* StringView()
StringView_default == [m_string |-> NULL, m_offset |-> 0, m_length |-> 0]

\* StringView(const String *string)
StringView_string(string) ==
    Ret([m_string |-> string, m_offset |-> 0, m_length |-> StrLength(string)])

\* A variant of StringView(string, offset) that keeps the whole length of the
\* String as m_length.
StringView_offset_whole_length(string, offset) ==
    IF ~SizeLessEq(offset, StrLength(string)) THEN Abort
    ELSE Ret([m_string |-> string, m_offset |-> offset,
              m_length |-> StrLength(string)])

\* StringView(const String *string, size_t offset)
StringView_offset(string, offset) ==
    IF ~SizeLessEq(offset, StrLength(string)) THEN Abort
    ELSE Ret([m_string |-> string, m_offset |-> offset,
              m_length |-> StrLength(string) - offset])

\* A variant of StringView(string, offset, length) that checks the length
\* against the whole String, not against what follows the offset.
StringView_offset_length_loose(string, offset, length) ==
    IF ~SizeLessEq(offset, StrLength(string)) THEN Abort
    ELSE IF ~SizeLessEq(length, StrLength(string)) THEN Abort
    ELSE Ret([m_string |-> string, m_offset |-> offset, m_length |-> length])

\* StringView(const String *string, size_t offset, size_t length)
StringView_offset_length(string, offset, length) ==
    IF ~SizeLessEq(offset, StrLength(string)) THEN Abort
    ELSE IF ~SizeLessEq(length, StrLength(string) - offset) THEN Abort
    ELSE Ret([m_string |-> string, m_offset |-> offset, m_length |-> length])

\* StringView(const StringView &other) = default
StringView_copy(other) == Ret(other)

(***************************************************************************)
(* StringView: accessors                                                   *)
(***************************************************************************)
offset(v) == v.m_offset
size(v) == v.m_length
length(v) == v.m_length
is_empty(v) == v.m_length = 0

(***************************************************************************)
(* StringView: equality                                                    *)
(***************************************************************************)
\* A variant of operator==(const char *) without the test that makes the
\* absent view equal to the empty C string.
operator_eq_cstr_absent_unequal(v, other) ==
    IF other.null /\ v.m_string = NULL THEN {Ret(TRUE)}
    ELSE IF other.null THEN UndefinedBool
    ELSE LET other_length == strlen(other) IN
         IF v.m_string = NULL THEN {Ret(FALSE)}
         ELSE IF v.m_length # other_length THEN {Ret(FALSE)}
         ELSE {Ret(memcmp(PtrAdd(c_str(v.m_string), v.m_offset), other,
                          v.m_length) = 0)}

\* bool operator==(const char *other) const
operator_eq_cstr(v, other) ==
    IF other.null /\ v.m_string = NULL THEN {Ret(TRUE)}
    ELSE IF other.null THEN UndefinedBool   \* strlen(nullptr)
    ELSE LET other_length == strlen(other) IN
         IF v.m_string = NULL /\ other_length = 0 THEN {Ret(TRUE)}
         ELSE IF v.m_string = NULL THEN {Ret(FALSE)}
         ELSE IF v.m_length # other_length THEN {Ret(FALSE)}
         ELSE {Ret(memcmp(PtrAdd(c_str(v.m_string), v.m_offset), other,
                          v.m_length) = 0)}

\* !(*this == other), for every overload of operator!=
Negated(outs) ==
    {IF o.kind = "return" THEN Ret(~o.value) ELSE o : o \in outs}

\* bool operator!=(const char *other) const
operator_ne_cstr(v, other) == Negated(operator_eq_cstr(v, other))

\* bool operator==(const char other) const
operator_eq_char(v, other) ==
    IF ~(v.m_length = 1) THEN {Ret(FALSE)}
    ELSE IF v.m_string = NULL THEN UndefinedBool   \* *m_string of nullptr
    ELSE {IF o.kind = "return" THEN Ret(o.value = other) ELSE o :
            o \in StrIndex(v.m_string, v.m_offset)}

\* bool operator!=(const char other) const
operator_ne_char(v, other) == Negated(operator_eq_char(v, other))

\* A variant of operator==(const StringView &) whose shortcut looks at the
\* String alone, not at the offset.
operator_eq_view_same_string(v, other) ==
    IF v.m_length # other.m_length THEN {Ret(FALSE)}
    ELSE IF v.m_length = 0 THEN {Ret(TRUE)}
    ELSE IF v.m_string = other.m_string THEN {Ret(TRUE)}
    ELSE {Ret(memcmp(PtrAdd(c_str(v.m_string), v.m_offset),
                     PtrAdd(c_str(other.m_string), other.m_offset),
                     v.m_length) = 0)}

\* bool operator==(const StringView &other) const
operator_eq_view(v, other) ==
    IF v.m_length # other.m_length THEN {Ret(FALSE)}
    ELSE IF v.m_length = 0 THEN {Ret(TRUE)}
    ELSE IF v.m_string = other.m_string /\ v.m_offset = other.m_offset
         THEN {Ret(TRUE)}
    ELSE IF v.m_string = NULL \/ other.m_string = NULL
         THEN UndefinedBool   \* m_string->c_str() of nullptr
    ELSE {Ret(memcmp(PtrAdd(c_str(v.m_string), v.m_offset),
                     PtrAdd(c_str(other.m_string), other.m_offset),
                     v.m_length) = 0)}

\* bool operator!=(const StringView &other) const
operator_ne_view(v, other) == Negated(operator_eq_view(v, other))

\* bool operator==(const String &other) const
operator_eq_string(v, other) ==
    operator_eq_view(v, StringView_string(other).value)

\* bool operator!=(const String &other) const
operator_ne_string(v, other) == Negated(operator_eq_string(v, other))

(***************************************************************************)
(* StringView: indexed reads                                               *)
(***************************************************************************)
\* char at(size_t index) const
at(v, index) ==
    IF v.m_string = NULL THEN {Abort}
    ELSE {StrAt(v.m_string, v.m_offset + index)}

\* char operator[](size_t index) const
operator_index(v, index) ==
    IF v.m_string = NULL THEN {Abort}
    ELSE StrIndex(v.m_string, v.m_offset + index)

\* const char *dangerous_pointer_to_underlying_data() const
dangerous_pointer_to_underlying_data(v) ==
    IF v.m_string = NULL THEN {Abort}
    ELSE {Ret(PtrAdd(c_str(v.m_string), v.m_offset))}

(***************************************************************************)
(* StringView: three-way comparison                                        *)
(***************************************************************************)
\* The for loop of cmp, from index i on, and the comparison of the lengths
\* that follows it.
RECURSIVE cmp_loop(_, _, _)
cmp_loop(v, other, i) ==
    IF i < Min(v.m_length, other.m_length)
    THEN UNION {
           IF o1.kind # "return" THEN {o1}
           ELSE UNION {
                  IF o2.kind # "return" THEN {o2}
                  ELSE LET c1 == ToUnsignedChar(o1.value)
                           c2 == ToUnsignedChar(o2.value)
                       IN  IF c1 < c2 THEN {Ret(-1)}
                           ELSE IF c1 > c2 THEN {Ret(1)}
                           ELSE cmp_loop(v, other, i + 1)
                  : o2 \in operator_index(other, i)}
           : o1 \in operator_index(v, i)}
    ELSE IF v.m_length = other.m_length THEN {Ret(0)}
    ELSE IF v.m_length < other.m_length THEN {Ret(-1)}
    ELSE {Ret(1)}

\* A variant of cmp that takes an empty view to be less than any view.
cmp_empty_is_less(v, other) ==
    IF v.m_length = 0 THEN {Ret(-1)} ELSE cmp_loop(v, other, 0)

\* int cmp(const StringView &other) const
cmp(v, other) ==
    IF v.m_length = 0
    THEN (IF other.m_length = 0 THEN {Ret(0)} ELSE {Ret(-1)})
    ELSE cmp_loop(v, other, 0)

\* int cmp(const String &other) const
cmp_string(v, other) == cmp(v, StringView_string(other).value)

(***************************************************************************)
(* StringView: conversion to an owned String                               *)
(***************************************************************************)
\* String to_string() const
to_string(v) ==
    IF v.m_string = NULL THEN {Ret(StringEmpty)}
    ELSE {Ret(StringFrom(PtrAdd(c_str(v.m_string), v.m_offset), v.m_length))}

\* operator String() const
operator_String(v) == to_string(v)

\* String clone() const
clone(v) == to_string(v)

(***************************************************************************)
(* Concatenation helpers                                                   *)
(***************************************************************************)
\* lhs.append(rhs.dangerous_pointer_to_underlying_data(), rhs.size()) on a
\* String whose content is `content`: the content after the call.
AppendView(content, rhs) ==
    {IF p.kind = "return" THEN Ret(StrAppend(content, p.value, size(rhs)))
     ELSE p : p \in dangerous_pointer_to_underlying_data(rhs)}

\* String operator+(const String &lhs, const StringView &rhs)
operator_plus(lhs, rhs) == AppendView(strs[lhs], rhs)

\* String &operator+=(String &lhs, const StringView &rhs): the new content
\* of lhs.
operator_plus_assign(lhs, rhs) == AppendView(strs[lhs], rhs)

(***************************************************************************)
(* The program: its state and its steps                                    *)
(***************************************************************************)
\* The zero-terminated C strings handed to operator==(const char *): the
\* null string, and every string of non-zero chars up to MaxLen.
CStrings == {NullPtr} \cup {Ptr(x \o <<0>>, 0) : x \in SeqsUpTo(MaxLen)}

\* The views a caller can hand over as the other operand: StringView(), and
\* every StringView(&s, o, n) whose construction returns.
Temps ==
    {StringView_default} \cup
    {c.value : c \in {x \in {StringView_offset_length(s, o, n) :
                                s \in StringIds, o \in Sizes, n \in Sizes} :
                        x.kind = "return"}}

\* Every StringView variable is default-constructed (m_string { nullptr },
\* m_offset { 0 }, m_length { 0 }) and no call has been made.
InitViews ==
    /\ views = [v \in ViewIds |-> StringView_default]
    /\ res = [op |-> "start", out |-> Ret(0)]

\* The Strings exist with any content up to MaxLen chars.
Init ==
    /\ strs \in [StringIds -> SeqsUpTo(MaxLen)]
    /\ InitViews

\* The Strings exist with any length up to MaxLen (their bytes all 'a').
InitLengths ==
    /\ strs \in [StringIds -> {[i \in 1 .. k |-> 97] : k \in 0 .. MaxLen}]
    /\ InitViews

\* The process runs until an assert fails or a fault ends it.
Alive == res.out.kind = "return"

\* The variable v receives the constructed view, if the constructor returned.
Store(v, out) ==
    views' = IF out.kind = "return" THEN [views EXCEPT ![v] = out.value]
             ELSE views

\* v = StringView()
Default(v) ==
    /\ Alive
    /\ Store(v, Ret(StringView_default))
    /\ res' = [op |-> "StringView()", v |-> v, out |-> Ret(StringView_default)]
    /\ UNCHANGED strs

\* v = StringView(&s)
Whole(v, s) ==
    /\ Alive
    /\ Store(v, StringView_string(s))
    /\ res' = [op |-> "StringView(string)", v |-> v, string |-> s,
               out |-> StringView_string(s)]
    /\ UNCHANGED strs

\* v = StringView(&s, o)
OffsetOnly(v, s, o) ==
    /\ Alive
    /\ Store(v, StringView_offset(s, o))
    /\ res' = [op |-> "StringView(string, offset)", v |-> v, string |-> s,
               offset |-> o, out |-> StringView_offset(s, o)]
    /\ UNCHANGED strs

\* v = StringView(&s, o, n)
OffsetLength(v, s, o, n) ==
    /\ Alive
    /\ Store(v, StringView_offset_length(s, o, n))
    /\ res' = [op |-> "StringView(string, offset, length)", v |-> v,
               string |-> s, offset |-> o, length |-> n,
               out |-> StringView_offset_length(s, o, n)]
    /\ UNCHANGED strs

\* v = StringView(w): the copy constructor
Copy(v, w) ==
    /\ Alive
    /\ Store(v, StringView_copy(views[w]))
    /\ res' = [op |-> "StringView(other)", v |-> v, other |-> w,
               out |-> StringView_copy(views[w])]
    /\ UNCHANGED strs

\* v = w: copy-assignment (operator= is defaulted: the three fields)
Assign(v, w) ==
    /\ Alive
    /\ views' = [views EXCEPT ![v] = views[w]]
    /\ res' = [op |-> "operator=", v |-> v, other |-> w, out |-> Ret(views[w])]
    /\ UNCHANGED strs

\* A const member function called on the variable v with argument arg.
Call(name, v, arg, outs) ==
    /\ Alive
    /\ \E out \in outs : res' = [op |-> name, v |-> v, arg |-> arg, out |-> out]
    /\ UNCHANGED <<strs, views>>

Offset(v) == Call("offset", v, <<>>, {Ret(offset(views[v]))})
Size(v) == Call("size", v, <<>>, {Ret(size(views[v]))})
Length(v) == Call("length", v, <<>>, {Ret(length(views[v]))})
IsEmpty(v) == Call("is_empty", v, <<>>, {Ret(is_empty(views[v]))})

EqCStr(v, c) == Call("==cstr", v, c, operator_eq_cstr(views[v], c))
NeCStr(v, c) == Call("!=cstr", v, c, operator_ne_cstr(views[v], c))
EqChar(v, c) == Call("==char", v, c, operator_eq_char(views[v], c))
NeChar(v, c) == Call("!=char", v, c, operator_ne_char(views[v], c))
EqView(v, w) == Call("==view", v, w, operator_eq_view(views[v], w))
NeView(v, w) == Call("!=view", v, w, operator_ne_view(views[v], w))
EqString(v, s) == Call("==string", v, s, operator_eq_string(views[v], s))
NeString(v, s) == Call("!=string", v, s, operator_ne_string(views[v], s))
Cmp(v, w) == Call("cmp", v, w, cmp(views[v], w))
CmpString(v, s) == Call("cmp_string", v, s, cmp_string(views[v], s))
ToString(v) == Call("to_string", v, <<>>, to_string(views[v]))
OperatorString(v) == Call("operator String", v, <<>>, operator_String(views[v]))
Clone(v) == Call("clone", v, <<>>, clone(views[v]))
At(v, i) == Call("at", v, i, at(views[v], i))
Index(v, i) == Call("[]", v, i, operator_index(views[v], i))
RawPointer(v) ==
    Call("dangerous_pointer_to_underlying_data", v, <<>>,
         dangerous_pointer_to_underlying_data(views[v]))

\* lhs + v: a new String; lhs, v and v's String are left alone.
Plus(lhs, v) == Call("+", v, lhs, operator_plus(lhs, views[v]))

\* lhs += v.  The caller keeps v's String distinct from lhs (append reads
\* from a pointer into v's String while lhs grows), and the model keeps the
\* Strings within MaxLen.
PlusAssign(lhs, v) ==
    /\ Alive
    /\ views[v].m_string # lhs
    /\ StrLength(lhs) + size(views[v]) <= MaxLen
    /\ \E out \in operator_plus_assign(lhs, views[v]) :
          /\ res' = [op |-> "+=", v |-> v, arg |-> lhs, before |-> strs,
                     out |-> out]
          /\ strs' = IF out.kind = "return" THEN [strs EXCEPT ![lhs] = out.value]
                     ELSE strs
    /\ UNCHANGED views

\* Constructions and copy-assignments of the variables V.
Build(V, S) ==
    \/ \E v \in V : Default(v)
    \/ \E v \in V, s \in StringIds : Whole(v, s)
    \/ \E v \in V, s \in StringIds, o \in S : OffsetOnly(v, s, o)
    \/ \E v \in V, s \in StringIds, o \in S, n \in S :
          OffsetLength(v, s, o, n)
    \/ \E v \in V, w \in V : Copy(v, w)
    \/ \E v \in V, w \in V : Assign(v, w)

\* The life of the views: constructions and copy-assignments of every
\* variable.
Next == Build(ViewIds, Sizes)

Spec == InitLengths /\ [][Next]_vars

\* Equality of the view a with views and Strings.
NextEq ==
    \/ Build({"a"}, SmallSizes)
    \/ \E w \in Temps : EqView("a", w)
    \/ \E w \in Temps : NeView("a", w)
    \/ \E s \in StringIds : EqString("a", s)
    \/ \E s \in StringIds : NeString("a", s)

SpecEq == Init /\ [][NextEq]_vars

\* Three-way comparison of the view a with views and Strings.
NextCmp ==
    \/ Build({"a"}, SmallSizes)
    \/ \E w \in Temps : Cmp("a", w)
    \/ \E s \in StringIds : CmpString("a", s)

SpecCmp == Init /\ [][NextCmp]_vars

\* Equality of the view a with C strings and chars.
NextCStr ==
    \/ Build({"a"}, SmallSizes)
    \/ \E c \in CStrings : EqCStr("a", c)
    \/ \E c \in CStrings : NeCStr("a", c)
    \/ \E c \in Chars : EqChar("a", c)
    \/ \E c \in Chars : NeChar("a", c)

SpecCStr == Init /\ [][NextCStr]_vars

\* Accessors, checked reads and conversions of the view a.
NextRead ==
    \/ Build({"a"}, SmallSizes)
    \/ Offset("a")
    \/ Size("a")
    \/ Length("a")
    \/ IsEmpty("a")
    \/ \E i \in Sizes : At("a", i)
    \/ RawPointer("a")
    \/ ToString("a")
    \/ OperatorString("a")
    \/ Clone("a")

SpecRead == Init /\ [][NextRead]_vars

\* Concatenation of the view a to the Strings.
NextConcat ==
    \/ Build({"a"}, SmallSizes)
    \/ \E lhs \in StringIds : Plus(lhs, "a")
    \/ \E lhs \in StringIds : PlusAssign(lhs, "a")

SpecConcat == Init /\ [][NextConcat]_vars

\* The absent view and the zero-length views of the Strings, under every
\* operation that reads a view.
NextEquiv ==
    \/ Default("a")
    \/ \E s \in StringIds, o \in Sizes : OffsetLength("a", s, o, 0)
    \/ RawPointer("a")
    \/ \E i \in Sizes : At("a", i)
    \/ \E i \in EdgeIndexes : Index("a", i)
    \/ \E w \in Temps : EqView("a", w)
    \/ \E w \in Temps : NeView("a", w)
    \/ \E s \in StringIds : EqString("a", s)
    \/ \E s \in StringIds : NeString("a", s)
    \/ \E c \in CStrings : EqCStr("a", c)
    \/ \E c \in CStrings : NeCStr("a", c)
    \/ \E c \in Chars : EqChar("a", c)
    \/ \E c \in Chars : NeChar("a", c)
    \/ \E w \in Temps : Cmp("a", w)
    \/ \E s \in StringIds : CmpString("a", s)
    \/ Size("a")
    \/ Length("a")
    \/ IsEmpty("a")
    \/ ToString("a")
    \/ OperatorString("a")
    \/ Clone("a")
    \/ \E lhs \in StringIds : Plus(lhs, "a")
    \/ \E lhs \in StringIds : PlusAssign(lhs, "a")

SpecEquiv == InitLengths /\ [][NextEquiv]_vars

(***************************************************************************)
(* Vocabulary of the properties                                            *)
(***************************************************************************)
\* The byte sequence visible through a view; empty for the absent view.
Visible(v) ==
    IF v.m_string = NULL THEN <<>>
    ELSE SubSeq(strs[v.m_string], v.m_offset + 1, v.m_offset + v.m_length)

\* The bounds a view keeps.
WellFormed(v) ==
    /\ v.m_string = NULL => v.m_offset = 0 /\ v.m_length = 0
    /\ v.m_string # NULL =>
         /\ v.m_offset <= Len(strs[v.m_string])
         /\ v.m_offset + v.m_length <= Len(strs[v.m_string])

\* A char as an unsigned byte value.
ByteValue(c) == IF c < 0 THEN c + 256 ELSE c

\* Lexicographic comparison of two byte sequences, bytes as unsigned values.
LexCmp(x, y) ==
    LET d == {i \in 1 .. Min(Len(x), Len(y)) : x[i] # y[i]} IN
    IF d = {}
    THEN (IF Len(x) = Len(y) THEN 0 ELSE IF Len(x) < Len(y) THEN -1 ELSE 1)
    ELSE LET k == CHOOSE i \in d : \A j \in d : i <= j
         IN  IF ByteValue(x[k]) < ByteValue(y[k]) THEN -1 ELSE 1

\* The bytes of a non-null C string, up to its terminator.
CStrBytes(c) == SubSeq(c.mem, 1, Len(c.mem) - 1)

IsReturn == res.out.kind = "return"

\* The size_t x, as a number, is more than the natural number n.
Exceeds(x, n) == x < 0 \/ x > n

(***************************************************************************)
(* C1                                                                      *)
(***************************************************************************)
\* C1: after any sequence of constructions and copy-assignments every view
\* is well formed (absent: offset 0 and length 0; present: offset and
\* offset + length within the String's length), and a view just built
\* reports through offset(), size() and length() what it was built with:
\* the default view 0 and 0; the whole-String view 0 and the String's
\* length; the offset-only view the offset and the String's length minus the
\* offset; the offset+length view the offset and the length; a copy or an
\* assignment the fields of the view copied.
C1_ViewsWellFormed ==
    /\ \A v \in ViewIds : WellFormed(views[v])
    /\ (res.op = "StringView()") =>
         /\ views[res.v].m_string = NULL
         /\ offset(views[res.v]) = 0
         /\ size(views[res.v]) = 0
         /\ length(views[res.v]) = 0
    /\ (res.op = "StringView(string)") =>
         /\ IsReturn
         /\ views[res.v].m_string = res.string
         /\ offset(views[res.v]) = 0
         /\ size(views[res.v]) = Len(strs[res.string])
         /\ length(views[res.v]) = Len(strs[res.string])
    /\ (res.op = "StringView(string, offset)" /\ IsReturn) =>
         /\ views[res.v].m_string = res.string
         /\ offset(views[res.v]) = res.offset
         /\ size(views[res.v]) = Len(strs[res.string]) - res.offset
         /\ length(views[res.v]) = Len(strs[res.string]) - res.offset
    /\ (res.op = "StringView(string, offset, length)" /\ IsReturn) =>
         /\ views[res.v].m_string = res.string
         /\ offset(views[res.v]) = res.offset
         /\ size(views[res.v]) = res.length
         /\ length(views[res.v]) = res.length
    /\ (res.op \in {"StringView(other)", "operator="}) =>
         /\ IsReturn
         /\ views[res.v] = views[res.other]

\* An offset-only view that starts inside its String and is not empty has
\* been built, and the other variable holds a copy of it.
C1_Witness ==
    /\ res.op = "StringView(other)"
    /\ res.v # res.other
    /\ views[res.v].m_string # NULL
    /\ views[res.v].m_offset > 0
    /\ views[res.v].m_length > 0
    /\ views[res.v].m_offset + views[res.v].m_length
         = Len(strs[views[res.v].m_string])

(***************************************************************************)
(* C2                                                                      *)
(***************************************************************************)
\* C2: the offset-only constructor aborts exactly when the offset is past
\* the String's length; the offset+length constructor aborts exactly when
\* the offset is past the String's length or the length is more than what
\* follows the offset; the default, whole-String and copy constructors never
\* abort; and a construction that aborts leaves every view as it was.
C2_AbortStates ==
    /\ (res.op = "StringView(string, offset)") =>
         /\ res.out.kind \in {"return", "abort"}
         /\ res.out.kind = "abort" <=> Exceeds(res.offset, Len(strs[res.string]))
    /\ (res.op = "StringView(string, offset, length)") =>
         /\ res.out.kind \in {"return", "abort"}
         /\ res.out.kind = "abort" <=>
              \/ Exceeds(res.offset, Len(strs[res.string]))
              \/ /\ ~Exceeds(res.offset, Len(strs[res.string]))
                 /\ Exceeds(res.length, Len(strs[res.string]) - res.offset)
    /\ (res.op \in {"StringView()", "StringView(string)", "StringView(other)"})
         => IsReturn

C2_AbortsOnBoundsOnly ==
    /\ []C2_AbortStates
    /\ [][res'.out.kind # "return" => views' = views]_vars

\* The offset+length constructor has aborted on its second assert: the
\* offset is inside the String and the length is more than what follows it,
\* though not more than the String's length.
C2_Witness ==
    /\ res.op = "StringView(string, offset, length)"
    /\ res.out.kind = "abort"
    /\ res.offset > 0
    /\ res.offset <= Len(strs[res.string])
    /\ res.length <= Len(strs[res.string])
    /\ res.length > Len(strs[res.string]) - res.offset

(***************************************************************************)
(* C3                                                                      *)
(***************************************************************************)
\* C3: a == b returns true exactly when the visible bytes of a and b are the
\* same sequence (the absent view counting as the empty sequence), whatever
\* Strings and offsets back them; a != b returns the negation; a == String
\* returns what a == the whole-String view returns, that is whether a's
\* visible bytes are the String's bytes.  So equality of views is symmetric,
\* reflexive and transitive.
C3_EqualityIsByteEquality ==
    /\ (res.op = "==view") =>
         /\ res.out = Ret(Visible(views[res.v]) = Visible(res.arg))
         /\ operator_eq_view(res.arg, views[res.v]) = {res.out}
         /\ operator_eq_view(views[res.v], views[res.v]) = {Ret(TRUE)}
         /\ operator_eq_view(res.arg, res.arg) = {Ret(TRUE)}
         /\ \A w \in Temps :
              (/\ res.out = Ret(TRUE)
               /\ operator_eq_view(res.arg, w) = {Ret(TRUE)})
              => operator_eq_view(views[res.v], w) = {Ret(TRUE)}
    /\ (res.op = "!=view") =>
         res.out = Ret(Visible(views[res.v]) # Visible(res.arg))
    /\ (res.op = "==string") =>
         /\ res.out = Ret(Visible(views[res.v]) = strs[res.arg])
         /\ operator_eq_view(views[res.v], StringView_string(res.arg).value)
              = {res.out}
    /\ (res.op = "!=string") =>
         res.out = Ret(Visible(views[res.v]) # strs[res.arg])

\* Two views of one String at different offsets, with different bytes, have
\* been compared and found different.
C3_Witness ==
    /\ res.op = "==view"
    /\ res.out = Ret(FALSE)
    /\ views[res.v].m_string # NULL
    /\ views[res.v].m_string = res.arg.m_string
    /\ views[res.v].m_offset # res.arg.m_offset
    /\ views[res.v].m_length = res.arg.m_length

(***************************************************************************)
(* C4                                                                      *)
(***************************************************************************)
\* C4: a.cmp(b) returns -1, 0 or 1: the lexicographic comparison of the
\* visible bytes of a and b, bytes ordered as unsigned values (the first
\* differing position decides; with none, the shorter view is less and views
\* of one length are equal; the absent view is the empty sequence).
\* a.cmp(String) returns what a.cmp(the whole-String view) returns.
C4_CmpIsLexicographic ==
    /\ (res.op = "cmp") =>
         /\ res.out = Ret(LexCmp(Visible(views[res.v]), Visible(res.arg)))
         /\ res.out.value \in {-1, 0, 1}
    /\ (res.op = "cmp_string") =>
         /\ res.out = Ret(LexCmp(Visible(views[res.v]), strs[res.arg]))
         /\ cmp(views[res.v], StringView_string(res.arg).value) = {res.out}

\* A comparison decided at the second byte by the unsigned order: 0xFF is
\* greater than 'a'.
C4_Witness ==
    /\ res.op = "cmp"
    /\ res.out = Ret(1)
    /\ Len(Visible(views[res.v])) = 2
    /\ Len(Visible(res.arg)) = 2
    /\ Visible(views[res.v])[1] = Visible(res.arg)[1]
    /\ Visible(views[res.v])[2] = -1
    /\ Visible(res.arg)[2] = 97

(***************************************************************************)
(* C5                                                                      *)
(***************************************************************************)
\* C5: for every pair of views a.cmp(b) = -(b.cmp(a)), and a.cmp(a) = 0.
C5_CmpAntisymmetric ==
    (res.op = "cmp") =>
        /\ IsReturn
        /\ cmp(res.arg, views[res.v]) = {Ret(-(res.out.value))}
        /\ cmp(views[res.v], views[res.v]) = {Ret(0)}
        /\ cmp(res.arg, res.arg) = {Ret(0)}

\* A view has been compared with a longer view that it is a prefix of.
C5_Witness ==
    /\ res.op = "cmp"
    /\ res.out = Ret(-1)
    /\ Len(Visible(views[res.v])) >= 1
    /\ Len(Visible(res.arg)) > Len(Visible(views[res.v]))
    /\ Visible(views[res.v])
         = SubSeq(Visible(res.arg), 1, Len(Visible(views[res.v])))

(***************************************************************************)
(* C6                                                                      *)
(***************************************************************************)
\* C6: operator==, operator!=, cmp, to_string, operator String and clone
\* return a value for every valid view and every operand (a view, a String,
\* a C string including the null string, a char): none aborts, and none
\* reaches a fault or undefined behaviour.
C6_ComparisonsNeverFail ==
    (res.op \in {"==view", "!=view", "==string", "!=string", "==cstr",
                 "!=cstr", "==char", "!=char", "cmp", "cmp_string",
                 "to_string", "operator String", "clone"})
        => IsReturn

(***************************************************************************)
(* C8                                                                      *)
(***************************************************************************)
\* What C8 asks of view == C string.  The absent view equals the null string
\* and the empty string.  Otherwise the answer is whether the lengths are
\* equal and the bytes match; the null string has no byte, so at least a
\* view that shows a byte differs from it.
C8_Expected(v, c, value) ==
    IF v.m_string = NULL /\ c.null THEN value = TRUE
    ELSE IF c.null THEN (v.m_length > 0 => value = FALSE)
    ELSE value = (Visible(v) = CStrBytes(c))

\* C8: view == C string returns true for the absent view against the null
\* or the empty string, and in every other case, for any view and any C
\* string, null or not, returns whether the lengths are equal and the bytes
\* match one for one; view != C string returns the negation.
C8_CStrEquality ==
    /\ (res.op = "==cstr") =>
         /\ IsReturn
         /\ C8_Expected(views[res.v], res.arg, res.out.value)
    /\ (res.op = "!=cstr") =>
         /\ IsReturn
         /\ C8_Expected(views[res.v], res.arg, ~res.out.value)

(***************************************************************************)
(* C9                                                                      *)
(***************************************************************************)
\* C9: for every String lhs and every valid view v not backed by lhs, lhs + v
\* returns lhs's bytes followed by v's visible bytes, and lhs += v returns
\* with lhs holding its old bytes followed by v's visible bytes and every
\* other String as it was.
C9_ConcatCopiesVisibleBytes ==
    /\ (res.op = "+" /\ views[res.v].m_string # res.arg) =>
         res.out = Ret(strs[res.arg] \o Visible(views[res.v]))
    /\ (res.op = "+=") =>
         /\ IsReturn
         /\ strs[res.arg] = res.before[res.arg] \o Visible(views[res.v])
         /\ \A s \in StringIds \ {res.arg} : strs[s] = res.before[s]

(***************************************************************************)
(* C10                                                                     *)
(***************************************************************************)
\* C10: at(i) aborts if the view is absent or offset + i is not below the
\* String's length; otherwise it returns the String's byte at offset + i,
\* which for i below the view's length is the i-th visible byte.  The bound
\* is the String's, not the view's.  at(i) changes no view and no String.
\* (offset + i is the sum of the two numbers: with i within MaxLen of
\* SIZE_MAX it is far past every String.)
C10_AtStates ==
    (res.op = "at") =>
        LET v == views[res.v]
            i == res.arg
        IN  IF v.m_string = NULL THEN res.out = Abort
            ELSE IF i < 0 \/ v.m_offset + i >= Len(strs[v.m_string])
                 THEN res.out = Abort
            ELSE /\ res.out = Ret(strs[v.m_string][v.m_offset + i + 1])
                 /\ i < v.m_length => res.out.value = Visible(v)[i + 1]

C10_AtBoundedByString ==
    /\ []C10_AtStates
    /\ [][res'.op = "at" => (strs' = strs /\ views' = views)]_vars

(***************************************************************************)
(* C7                                                                      *)
(***************************************************************************)
\* What a call of the operation op with argument arg on the view v can give.
OutcomesOf(op, v, arg) ==
    CASE op = "==view" -> operator_eq_view(v, arg)
      [] op = "!=view" -> operator_ne_view(v, arg)
      [] op = "==string" -> operator_eq_string(v, arg)
      [] op = "!=string" -> operator_ne_string(v, arg)
      [] op = "==cstr" -> operator_eq_cstr(v, arg)
      [] op = "!=cstr" -> operator_ne_cstr(v, arg)
      [] op = "==char" -> operator_eq_char(v, arg)
      [] op = "!=char" -> operator_ne_char(v, arg)
      [] op = "cmp" -> cmp(v, arg)
      [] op = "cmp_string" -> cmp_string(v, arg)
      [] op = "size" -> {Ret(size(v))}
      [] op = "length" -> {Ret(length(v))}
      [] op = "is_empty" -> {Ret(is_empty(v))}
      [] op = "to_string" -> to_string(v)
      [] op = "operator String" -> operator_String(v)
      [] op = "clone" -> clone(v)
      [] op = "at" -> at(v, arg)
      [] op = "[]" -> operator_index(v, arg)
      [] op = "dangerous_pointer_to_underlying_data" ->
           dangerous_pointer_to_underlying_data(v)
      [] op = "+" -> operator_plus(arg, v)
      [] op = "+=" -> operator_plus_assign(arg, v)

\* The views C7 pairs with v: for the absent view every zero-length view of
\* a String, for a zero-length view of a String the absent view.
Twins(v) ==
    IF v.m_string = NULL
    THEN {w \in Temps : w.m_string # NULL /\ w.m_length = 0}
    ELSE IF v.m_length = 0 THEN {StringView_default}
    ELSE {}

\* The call recorded in res gives on every twin of its view what it gives on
\* the view.
SameOnTwins ==
    \A w \in Twins(views[res.v]) :
        /\ res.out \in OutcomesOf(res.op, w, res.arg)
        /\ OutcomesOf(res.op, w, res.arg)
             = OutcomesOf(res.op, views[res.v], res.arg)

ComparisonsAndReads ==
    {"==view", "!=view", "==string", "!=string", "==cstr", "!=cstr",
     "==char", "!=char", "cmp", "cmp_string", "size", "length", "is_empty",
     "to_string", "operator String", "clone"}

\* C7 as amended: the absent view and a zero-length view of a String (at any
\* in-bounds offset) give the same outcome under ==, != against a view, a
\* String, a non-null C string and a char, under cmp, under size, length
\* and is_empty, and under to_string, clone and operator String.
C7_AbsentLikeEmpty ==
    (/\ res.op \in ComparisonsAndReads
     /\ res.op \in {"==cstr", "!=cstr"} => ~res.arg.null)
        => SameOnTwins

\* C7 as stated: the same also against the null C string and under at(i),
\* operator[](i), the raw pointer, operator+ and operator+=.
C7_AbsentLikeEmptyEverywhere ==
    (res.op \in ComparisonsAndReads \cup
                {"at", "[]", "dangerous_pointer_to_underlying_data", "+", "+="})
        => SameOnTwins

\* The absent view has been compared with the empty C string and found
\* equal, as a zero-length view of a String would be.
C7_Witness ==
    /\ res.op = "==cstr"
    /\ views[res.v].m_string = NULL
    /\ ~res.arg.null
    /\ CStrBytes(res.arg) = <<>>
    /\ res.out = Ret(TRUE)
    /\ Twins(views[res.v]) # {}

====
